---- MODULE Spec2Model ----
(***************************************************************************)
(* Model of the pagination-driven scrape-and-ingest pipeline:              *)
(*   - DuplicateCleaner.clean_duplicates        (duplicate_cleaner.py)     *)
(*   - MySecondDB.write_to_sql                  (db.py)                    *)
(*   - SaleInfoLoader / VehicleTrackingProcessor.process_all_files         *)
(*   - DailySaleScraperV2.process_single_auction and                       *)
(*     OnlineScraperStep2.process_auction (the two pagination loops)       *)
(*   - DuplicateCleaner.restore_from_json      (duplicate_cleaner.py)      *)
(*   - SaleInfoLoader.flatten_json_data and main                           *)
(*     (listing_scraper_step4_sale_info_to_db.py)                          *)
(***************************************************************************)
EXTENDS Integers, Sequences, FiniteSets, Bags, TLC

(***************************************************************************)
(* Bounds of the model.  PageSize stands for self.limit, the number of     *)
(* items the server puts on a page (120 in the daily scraper, 1000 in the  *)
(* single-URL scraper), scaled down; MaxTotal bounds the totals the server *)
(* reports and MaxPage the page numbers a run may request; MaxItems bounds  *)
(* the elements of a raw page given to the flattener and MaxCols the       *)
(* columns of a schema.                                                    *)
(***************************************************************************)
MaxRows == 3
MaxOrd == 3
NumFiles == 2
MaxCalls == 2
MaxLoads == 2
MaxPage == 3
MaxTotal == 5
PageSize == 2
MaxItems == 3
MaxCols == 3

Keys == {"A", "B"}
Ords == 1..MaxOrd
Files == 1..NumFiles
Procs == {1, 2}
SeqProcs == {1}

(* A table row: partition key, order key, and the raw file it came from    *)
(* (0 for a row that was in the table before any load of the model).       *)
RowTypes == [id : Keys, ord : Ords, src : 0..NumFiles]

RECURSIVE BagOfSeq(_)
BagOfSeq(s) == IF s = <<>> THEN EmptyBag
               ELSE SetToBag({Head(s)}) (+) BagOfSeq(Tail(s))

(* rows a table may hold at the start: loaded earlier, from a file that is *)
(* gone (0) or from the first raw file (1)                                 *)
InitRows == {r \in RowTypes : r.src <= 1}

InitTables == {BagOfSeq(s) : s \in UNION {[1..n -> InitRows] : n \in 0..MaxRows}}

VARIABLES
    table,      \* destination table: bag of rows
    backup,     \* duplicate_clean_sql/<table>.json
    cl,         \* per call of clean_duplicates: its locals and position
    hist,       \* completed calls of clean_duplicates, oldest first
    pending,    \* raw files in the pending directory
    archived,   \* raw files in the uploaded directory
    content,    \* what each raw file flattens to
    ld,         \* the ingestion run: its locals and position
    insertedOk, \* files whose records a successful insert call included
    pg,         \* the pagination run: its locals and position
    log,        \* the iterations of the current pagination run
    store,      \* raw response store: the files written so far
    clock,      \* the second the next file name is stamped with
    mn,         \* main of the sale-info loader: its position and calls
    rs,         \* the call of restore_from_json: its position and result
    doc,        \* the raw page handed to flatten_json_data
    schema,     \* the schema columns handed to it
    flat        \* what flatten_json_data returned and what was built of it

(***************************************************************************)
(* MySecondDB                                                              *)
(***************************************************************************)

(* the COUNT query of lines 52-54 and 155-156 *)
CountRows(tbl) == BagCardinality(tbl)

KeysIn(tbl) == {r.id : r \in BagToSet(tbl)}

MaxOrdOf(tbl, k) ==
    CHOOSE o \in {r.ord : r \in {x \in BagToSet(tbl) : x.id = k}} :
        \A r \in BagToSet(tbl) : r.id = k => r.ord <= o

Winners_asc(tbl, k) ==
    {r \in BagToSet(tbl) : r.id = k /\ \A x \in BagToSet(tbl) : x.id = k => r.ord <= x.ord}

(* rows that ROW_NUMBER() OVER (PARTITION BY id ORDER BY ord DESC) may     *)
(* number 1 within partition k: ties are broken arbitrarily                *)
Winners(tbl, k) == {r \in BagToSet(tbl) : r.id = k /\ r.ord = MaxOrdOf(tbl, k)}

(* every result the dedup query can return *)
DedupResults(tbl) ==
    {SetToBag({f[k] : k \in KeysIn(tbl)}) :
        f \in {g \in [KeysIn(tbl) -> BagToSet(tbl)] :
                  \A k \in KeysIn(tbl) : g[k] \in Winners(tbl, k)}}

truncate_kept(tbl) == tbl

(* TRUNCATE TABLE (lines 108-109) *)
truncate_table(tbl) == EmptyBag

write_to_sql_dropped(tbl, df, dbOk) == [table |-> tbl, raised |-> FALSE]

(* write_to_sql: df.to_sql inside try/except that only logs; the caller    *)
(* never sees an exception.  dbOk says whether to_sql itself worked.       *)
write_to_sql(tbl, df, dbOk) ==
    [table  |-> IF dbOk THEN tbl (+) df ELSE tbl,
     raised |-> FALSE]

(***************************************************************************)
(* Backup file: to_dict('records') + json.dump, json.load + DataFrame      *)
(***************************************************************************)
NoBackup == [state |-> "none", rows |-> EmptyBag]

(* a record as stored in the JSON file: the order key (a Timestamp) is     *)
(* written as a formatted string                                           *)
ToJsonRec(r) == [id |-> r.id, ord |-> <<"str", r.ord>>, src |-> r.src]

(* a JSON record once it is inserted again: the database parses the        *)
(* formatted string back into the column's datetime                        *)
FromJsonRec(j) == [id |-> j.id, ord |-> j.ord[2], src |-> j.src]

ToJson(df) == [j \in {ToJsonRec(r) : r \in BagToSet(df)} |->
                 CopiesIn(CHOOSE r \in BagToSet(df) : ToJsonRec(r) = j, df)]

FromJson(js) == [r \in {FromJsonRec(j) : j \in BagToSet(js)} |->
                   CopiesIn(CHOOSE j \in BagToSet(js) : FromJsonRec(j) = r, js)]

(***************************************************************************)
(* DuplicateCleaner.clean_duplicates, one action per step                  *)
(***************************************************************************)
(* the locals of a call; overlap is not one of the code's: it notes that   *)
(* another call on the table, or a load into it, was in progress at some   *)
(* moment of this call                                                     *)
IdleCall == [pc |-> "idle", pre |-> EmptyBag, before |-> 0, dedup |-> EmptyBag,
             ret |-> 0, failed |-> {}, backupDone |-> FALSE,
             truncated |-> FALSE, fallback |-> FALSE, notice |-> "none",
             overlap |-> FALSE]

(* return from the call; hist remembers what it returned, whether a step   *)
(* of it failed, and how many rows and distinct keys the table had before  *)
Return(p, c, r, note) ==
    /\ cl' = [cl EXCEPT ![p] = [c EXCEPT !.pc = "done", !.ret = r, !.notice = note]]
    /\ hist' = Append(hist, [ret |-> r, failed |-> c.failed # {},
                             rows |-> BagCardinality(c.pre),
                             keys |-> Cardinality(KeysIn(c.pre))])

CleanStart(p) ==
    /\ cl[p].pc \in {"idle", "done"}
    /\ Len(hist) < MaxCalls
    /\ LET running == {q \in Procs \ {p} : cl[q].pc \notin {"idle", "done"}} IN
       cl' = [q \in Procs |->
                IF q = p
                THEN [IdleCall EXCEPT !.pc = "count", !.pre = table,
                                      !.overlap = (running # {} \/
                                                   ld.pc \notin {"idle", "done"})]
                ELSE IF q \in running THEN [cl[q] EXCEPT !.overlap = TRUE]
                ELSE cl[q]]
    /\ UNCHANGED <<table, backup, hist>>

(* lines 52-54 *)
CleanCount(p) ==
    /\ cl[p].pc = "count"
    /\ \E ok \in BOOLEAN :
         IF ok
         THEN /\ cl' = [cl EXCEPT ![p].pc = "select", ![p].before = CountRows(table)]
              /\ UNCHANGED hist
         ELSE Return(p, [cl[p] EXCEPT !.failed = @ \cup {"count"}], -1, "error")
    /\ UNCHANGED <<table, backup>>

CleanSelect_always(p) ==
    /\ cl[p].pc = "select"
    /\ \E ok \in BOOLEAN :
         IF ok
         THEN \E d \in DedupResults(table) :
                /\ cl' = [cl EXCEPT ![p].pc = "backup", ![p].dedup = d]
                /\ UNCHANGED hist
         ELSE Return(p, [cl[p] EXCEPT !.failed = @ \cup {"select"}], -1, "error")
    /\ UNCHANGED <<table, backup>>

(* lines 56-76: the read of the deduplicated rows, and the return of 0     *)
(* when it is empty (68-72)                                                *)
CleanSelect(p) ==
    /\ cl[p].pc = "select"
    /\ \E ok \in BOOLEAN :
         IF ok
         THEN \E d \in DedupResults(table) :
                IF d = EmptyBag
                THEN Return(p, cl[p], 0, "nodata")
                ELSE /\ cl' = [cl EXCEPT ![p].pc = "backup", ![p].dedup = d]
                     /\ UNCHANGED hist
         ELSE Return(p, [cl[p] EXCEPT !.failed = @ \cup {"select"}], -1, "error")
    /\ UNCHANGED <<table, backup>>

CleanBackup_logged(p) ==
    /\ cl[p].pc = "backup"
    /\ \E out \in {"ok", "noopen", "partial"} :
         /\ backup' = CASE out = "ok" -> [state |-> "ok", rows |-> ToJson(cl[p].dedup)]
                         [] out = "noopen" -> backup
                         [] out = "partial" -> [state |-> "partial", rows |-> EmptyBag]
         /\ cl' = [cl EXCEPT ![p].pc = "truncate", ![p].backupDone = (out = "ok"),
                             ![p].failed = IF out = "ok" THEN @ ELSE @ \cup {"backup"}]
         /\ UNCHANGED hist
    /\ UNCHANGED table

(* lines 78-102: "ok" writes the whole file; "noopen" fails before the     *)
(* file is opened; "partial" fails after open(.., 'w') emptied it          *)
CleanBackup(p) ==
    /\ cl[p].pc = "backup"
    /\ \E out \in {"ok", "noopen", "partial"} :
         CASE out = "ok" ->
                /\ backup' = [state |-> "ok", rows |-> ToJson(cl[p].dedup)]
                /\ cl' = [cl EXCEPT ![p].pc = "truncate", ![p].backupDone = TRUE]
                /\ UNCHANGED hist
           [] out = "noopen" ->
                /\ backup' = backup
                /\ Return(p, [cl[p] EXCEPT !.failed = @ \cup {"backup"}], -1, "error")
           [] out = "partial" ->
                /\ backup' = [state |-> "partial", rows |-> EmptyBag]
                /\ Return(p, [cl[p] EXCEPT !.failed = @ \cup {"backup"}], -1, "error")
    /\ UNCHANGED table

(* lines 107-110 *)
CleanTruncate(p) ==
    /\ cl[p].pc = "truncate"
    /\ \E ok \in BOOLEAN :
         IF ok
         THEN /\ table' = truncate_table(table)
              /\ cl' = [cl EXCEPT ![p].pc = "insert", ![p].truncated = TRUE]
              /\ UNCHANGED hist
         ELSE /\ table' = table
              /\ Return(p, [cl[p] EXCEPT !.failed = @ \cup {"truncate"}], -1, "error")
    /\ UNCHANGED backup

(* lines 112-152: the insert and its except-branch *)
CleanInsert(p) ==
    /\ cl[p].pc = "insert"
    /\ \E dbOk \in BOOLEAN, dbOk2 \in BOOLEAN :
         LET w == write_to_sql(table, cl[p].dedup, dbOk)
             c == [cl[p] EXCEPT !.failed = IF dbOk THEN @ ELSE @ \cup {"insert"}]
         IN  IF ~w.raised
             THEN /\ table' = w.table
                  /\ cl' = [cl EXCEPT ![p] = [c EXCEPT !.pc = "final"]]
                  /\ UNCHANGED hist
             ELSE LET c2 == [c EXCEPT !.fallback = TRUE] IN
                  IF backup.state # "ok" \/ backup.rows = EmptyBag
                  THEN /\ table' = w.table
                       /\ Return(p, c2, -1, "recovery")
                  ELSE LET w2 == write_to_sql(w.table, FromJson(backup.rows), dbOk2) IN
                       /\ table' = w2.table
                       /\ IF w2.raised
                          THEN Return(p, c2, -1, "recovery")
                          ELSE /\ cl' = [cl EXCEPT ![p] = [c2 EXCEPT !.pc = "final"]]
                               /\ UNCHANGED hist
    /\ UNCHANGED backup

(* lines 154-169 *)
CleanFinal(p) ==
    /\ cl[p].pc = "final"
    /\ \E ok \in BOOLEAN :
         IF ok
         THEN Return(p, cl[p], CountRows(table), "completed")
         ELSE Return(p, [cl[p] EXCEPT !.failed = @ \cup {"final"}], -1, "error")
    /\ UNCHANGED <<table, backup>>

clean_duplicates(p) ==
    \/ CleanStart(p)
    \/ CleanCount(p)
    \/ CleanSelect(p)
    \/ CleanBackup(p)
    \/ CleanTruncate(p)
    \/ CleanInsert(p)
    \/ CleanFinal(p)

(***************************************************************************)
(* SaleInfoLoader.process_all_files ("sale") and                           *)
(* VehicleTrackingProcessor.process_all_files ("vehicle")                  *)
(***************************************************************************)
LoaderKinds == {"sale", "vehicle"}

(* what flattening raw file f yields: a bag of records, empty when the     *)
(* file has no usable record or cannot be processed                        *)
FileContents(f) ==
    {EmptyBag} \cup {SetToBag({[id |-> k, ord |-> o, src |-> f]}) : k \in Keys, o \in Ords}

RECURSIVE SumContent(_, _)
SumContent(fs, cont) ==
    IF fs = {} THEN EmptyBag
    ELSE LET f == CHOOSE x \in fs : TRUE
         IN  cont[f] (+) SumContent(fs \ {f}, cont)

IdleLoad == [pc |-> "idle", kind |-> "sale", listed |-> {}, files |-> {},
             all_records |-> EmptyBag, inserted |-> 0, tomove |-> {},
             moved |-> {}, dbOk |-> TRUE, ret |-> FALSE, runs |-> 0]

LoadReturn(l, r) == ld' = [l EXCEPT !.pc = "done", !.ret = r]

(* step4 lines 508-520, step6 lines 288-292 *)
LoadStart(kind) ==
    /\ ld.pc \in {"idle", "done"}
    /\ ld.runs < MaxLoads
    /\ LET l == [IdleLoad EXCEPT !.kind = kind, !.runs = ld.runs + 1] IN
       \E pre \in BOOLEAN :
          IF (kind = "sale" /\ ~pre) \/ pending = {}
          THEN LoadReturn(l, FALSE)
          ELSE ld' = [l EXCEPT !.pc = "flatten", !.listed = pending]
    /\ UNCHANGED <<table, pending, archived, content, insertedOk>>

GoodFiles_all(listed, cont) == listed

(* the files the run keeps track of: step4 lines 527-530 (only files that  *)
(* gave records; flatten_json_data returns [] when it fails, 320-323),     *)
(* step6 lines 300-313 (a file whose processing raises is skipped)         *)
GoodFiles(listed, cont) == {f \in listed : cont[f] # EmptyBag}

(* step4 lines 522-534, step6 lines 296-313 *)
LoadFlatten ==
    /\ ld.pc = "flatten"
    /\ LET good == GoodFiles(ld.listed, content)
           recs == SumContent(good, content)
       IN  IF recs = EmptyBag
           THEN LoadReturn(ld, FALSE)
           ELSE ld' = [ld EXCEPT !.pc = "insert", !.files = good, !.all_records = recs]
    /\ UNCHANGED <<table, pending, archived, content, insertedOk>>

(* insert_data (step4 lines 420-449): len(df) unless write_to_sql raises;  *)
(* insert_to_database (step6 lines 208-237): True unless it raises, here 1 *)
insert_data(kind, df, raised) ==
    IF raised THEN -1
    ELSE IF df = EmptyBag THEN 0
    ELSE IF kind = "sale" THEN BagCardinality(df) ELSE 1

(* step4 lines 569-572 and 590-595, step6 lines 316-326 *)
LoadInsert ==
    /\ ld.pc = "insert"
    /\ \E dbOk \in BOOLEAN :
         LET w == write_to_sql(table, ld.all_records, dbOk)
             n == insert_data(ld.kind, ld.all_records, w.raised)
             l == [ld EXCEPT !.inserted = n, !.dbOk = dbOk]
         IN  /\ table' = w.table
             /\ insertedOk' = IF dbOk THEN insertedOk \cup ld.files ELSE insertedOk
             /\ IF n > 0
                THEN ld' = [l EXCEPT !.pc = "move", !.tomove = ld.files]
                ELSE LoadReturn(l, FALSE)
    /\ UNCHANGED <<pending, archived, content>>

(* move_processed_file for the next file of the list (step4 lines 464-501  *)
(* and 578-580, step6 lines 239-266 and 321-322); shutil.move may fail     *)
LoadMove ==
    /\ ld.pc = "move"
    /\ ld.tomove # {}
    /\ LET f == CHOOSE x \in ld.tomove : \A y \in ld.tomove : x <= y IN
       \E ok \in BOOLEAN :
          /\ ld' = [ld EXCEPT !.tomove = @ \ {f},
                              !.moved = IF ok THEN @ \cup {f} ELSE @]
          /\ pending' = IF ok THEN pending \ {f} ELSE pending
          /\ archived' = IF ok THEN archived \cup {f} ELSE archived
    /\ UNCHANGED <<table, content, insertedOk>>

LoadDone_early ==
    /\ ld.pc = "move"
    /\ LoadReturn(ld, TRUE)
    /\ UNCHANGED <<table, pending, archived, content, insertedOk>>

(* step4 line 589, step6 lines 324-330 *)
LoadDone ==
    /\ ld.pc = "move"
    /\ ld.tomove = {}
    /\ LoadReturn(ld, TRUE)
    /\ UNCHANGED <<table, pending, archived, content, insertedOk>>

process_all_files ==
    \/ \E kind \in LoaderKinds : LoadStart(kind)
    \/ LoadFlatten
    \/ LoadInsert
    \/ LoadMove
    \/ LoadDone

(***************************************************************************)
(* The pagination loops: DailySaleScraperV2.process_single_auction         *)
(* ("daily") and OnlineScraperStep2.process_auction ("single")             *)
(***************************************************************************)
ScraperKinds == {"daily", "single"}

(* ways in which one iteration fails to obtain a page: navigation error,   *)
(* no captured search request, network error or timeout, non-200 status,   *)
(* non-JSON body, failure to write the page file, and a JSON body that is  *)
(* written to its file but whose item list cannot be measured (a null      *)
(* "value": len raises at daily line 451 and the call returns None)        *)
FetchFailures == {"nav", "nopost", "neterr", "non200", "nonjson", "persist",
                  "analysis"}

Name_unstamped(f) == <<f.page, f.ext>>

(* the file name built at daily lines 437-439 and 478-480 (single lines    *)
(* 509-516): the auction's name, the page number, the second of the fetch  *)
(* and the extension; the model follows one auction                        *)
Name(f) == <<f.page, f.ts, f.ext>>

(* open(file_path, 'w') at daily lines 442, 483 and 499: the file of that  *)
(* name is created, or replaced when there is one                          *)
WriteFile(st, f) == {g \in st : Name(g) # Name(f)} \cup {f}

StartPage_one(kind) == 1

(* daily lines 528-529; single lines 605-606 with self.limit (line 42)     *)
StartPage(kind) == IF kind = "daily" THEN 1 ELSE 2
StartCollected(kind) == IF kind = "daily" THEN 0 ELSE PageSize

(* the body of the search request captured from the browser: JSON sent    *)
(* with a content-type of application/json, or anything else (form data,   *)
(* no body, a header the lookup at single line 458 does not find)          *)
BodyKinds == {"json", "other"}

(* no request was sent, and a request sent with the body as captured *)
NoRequest == [sent |-> FALSE, modified |-> FALSE, skip |-> 0, top |-> 0]
AsCaptured == [NoRequest EXCEPT !.sent = TRUE]

RequestRange_from0(kind, page, body) ==
    IF kind = "single" /\ body = "json" /\ page > 1
    THEN [sent |-> TRUE, modified |-> TRUE, skip |-> page * PageSize, top |-> PageSize]
    ELSE AsCaptured

(* single lines 456-481: a JSON body gets skip and top for a page after    *)
(* the first, any other body goes out as captured (483-502); the daily     *)
(* scraper sends every body as captured (daily lines 392-427).  Page 1,    *)
(* whose body only gets a missing top, is never requested by               *)
(* process_auction                                                         *)
RequestRange(kind, page, body) ==
    IF kind = "single" /\ body = "json" /\ page > 1
    THEN [sent |-> TRUE, modified |-> TRUE, skip |-> (page - 1) * PageSize,
          top |-> PageSize]
    ELSE AsCaptured

IdlePage == [pc |-> "idle", kind |-> "daily", body |-> "json", page |-> 0,
             collected |-> 0, startTs |-> 0,
             result |-> [success |-> FALSE, total_pages |-> 0, total_items |-> 0]]

(* the dict returned at daily lines 583-588, single lines 660-665 *)
RunResult(page, collected) ==
    [success |-> TRUE, total_pages |-> page, total_items |-> collected]

MorePagesNeeded_le(collected, odata_count) == collected <= odata_count

(* the test at daily line 567, single line 644 *)
MorePagesNeeded(collected, odata_count) == collected < odata_count

ObservedTotal_first(l, odata_count) ==
    IF l = <<>> THEN odata_count ELSE l[1].total

(* odata_count = result['odata_count'] at daily line 554, single line 631: *)
(* the total reported by the page just fetched; l is the run so far        *)
ObservedTotal(l, odata_count) == odata_count

Counted_early(collected, saved, items) == collected + items

(* daily lines 549-556, single lines 626-633: without a result (the page   *)
(* was not saved and analysed) the loop breaks before the addition         *)
Counted(collected, saved, items) ==
    IF saved THEN collected + items ELSE collected

OnFetchFailure_retry(g) == g

(* the break at daily lines 537, 544, 551 (single 614, 621, 628) followed  *)
(* by the return at daily lines 583-588 (single 660-665)                   *)
OnFetchFailure(g) == [g EXCEPT !.pc = "done", !.result = RunResult(g.page, g.collected)]

(* the run begins; the site answers a listing with one kind of search     *)
(* request for all its pages, which only the single-URL scraper inspects   *)
PageStart(kind) ==
    /\ pg.pc = "idle"
    /\ \E body \in (IF kind = "single" THEN BodyKinds ELSE {"json"}) :
         pg' = [IdlePage EXCEPT !.pc = "loop", !.kind = kind, !.body = body,
                                !.startTs = clock,
                                !.page = StartPage(kind),
                                !.collected = StartCollected(kind)]
    /\ log' = <<>>
    /\ UNCHANGED <<store, clock>>

(* one iteration that ends in a break at daily lines 535-551 (single       *)
(* 612-628); a non-200 or non-JSON response is saved as a .txt file        *)
(* (daily lines 476-505); a body that cannot be analysed was saved as      *)
(* .json before the analysis raised (442-451); a response whose file       *)
(* cannot be written carried items that are never counted                  *)
FetchFail ==
    /\ pg.pc = "loop"
    /\ \E out \in FetchFailures :
       \E items \in (IF out = "persist" THEN 0..PageSize ELSE {0}) :
         LET coll == Counted(pg.collected, FALSE, items)
             file == [kind |-> pg.kind, page |-> pg.page, ts |-> clock,
                      ext |-> IF out = "analysis" THEN "json" ELSE "txt",
                      items |-> 0, total |-> 0]
         IN
         /\ log' = Append(log, [page |-> pg.page, out |-> out, items |-> 0, total |-> 0,
                                collected |-> coll, ts |-> clock,
                                req |-> IF out \in {"nav", "nopost"} THEN NoRequest
                                        ELSE RequestRange(pg.kind, pg.page, pg.body)])
         /\ store' = IF out \in {"non200", "nonjson", "analysis"}
                     THEN WriteFile(store, file)
                     ELSE store
         /\ pg' = OnFetchFailure([pg EXCEPT !.collected = coll])
    /\ clock' = clock + 1

(* one iteration whose fetch succeeds: the page is saved (daily lines      *)
(* 432-466), counted (553-556) and the loop continues or stops (567-581)   *)
FetchOk ==
    /\ pg.pc = "loop"
    /\ pg.page <= MaxPage
    /\ \E total \in 0..MaxTotal, items \in 0..PageSize :
         LET coll == Counted(pg.collected, TRUE, items)
             file == [kind |-> pg.kind, page |-> pg.page, ts |-> clock,
                      ext |-> "json", items |-> items, total |-> total]
         IN
         /\ log' = Append(log, [page |-> pg.page, out |-> "ok", items |-> items,
                                total |-> total, collected |-> coll, ts |-> clock,
                                req |-> RequestRange(pg.kind, pg.page, pg.body)])
         /\ store' = WriteFile(store, file)
         /\ IF MorePagesNeeded(coll, ObservedTotal(log, total))
            THEN pg' = [pg EXCEPT !.page = @ + 1, !.collected = coll]
            ELSE pg' = [pg EXCEPT !.pc = "done", !.collected = coll,
                                  !.result = RunResult(pg.page, coll)]
    /\ clock' = clock + 1

process_auction ==
    \/ \E kind \in ScraperKinds : PageStart(kind)
    \/ FetchFail
    \/ FetchOk

cleanVars == <<table, backup, cl, hist>>
loadVars == <<pending, archived, content, ld, insertedOk>>
pageVars == <<pg, log, store, clock>>
flatVars == <<doc, schema, flat>>
vars == <<table, backup, cl, hist, pending, archived, content, ld, insertedOk,
          pg, log, store, clock, mn, rs, doc, schema, flat>>

(***************************************************************************)
(* DuplicateCleaner.restore_from_json                                      *)
(***************************************************************************)
IdleRestore == [pc |-> "idle", ret |-> 0, truncated |-> FALSE, dbOk |-> TRUE]

(* lines 187-230.  -1 when the backup file is missing (190-192), cannot be *)
(* parsed (199, caught at 226) or holds no record (201-203), and when      *)
(* TRUNCATE raises (216); otherwise the table is truncated, the records of *)
(* the file are handed to write_to_sql and their number is returned        *)
restore_from_json ==
    /\ rs.pc = "idle"
    /\ IF backup.state # "ok" \/ backup.rows = EmptyBag
       THEN /\ rs' = [rs EXCEPT !.pc = "done", !.ret = -1]
            /\ UNCHANGED table
       ELSE \E truncOk \in BOOLEAN, dbOk \in BOOLEAN :
              IF ~truncOk
              THEN /\ rs' = [rs EXCEPT !.pc = "done", !.ret = -1]
                   /\ UNCHANGED table
              ELSE LET restore_df == FromJson(backup.rows)
                       w == write_to_sql(truncate_table(table), restore_df, dbOk)
                   IN  /\ table' = w.table
                       /\ rs' = [pc |-> "done", ret |-> BagCardinality(restore_df),
                                 truncated |-> TRUE, dbOk |-> dbOk]
    /\ UNCHANGED <<backup, cl, hist>>

(***************************************************************************)
(* SaleInfoLoader.flatten_json_data                                        *)
(***************************************************************************)
Null == "null"

(* the schema columns of the model, one for each way the code fills a      *)
(* column: a sale column, two plain lot columns, the aliased car_keys, a   *)
(* timestamp, and a column nested under productLocation in shape B         *)
ColNames == {"saleId", "id", "make", "car_keys", "updatedAt", "productLocationCity"}

(* list(schema.keys()) at lines 39-51: distinct names in declared order *)
Schemas == {s \in UNION {[1..n -> ColNames] : n \in 0..MaxCols} :
               \A i \in DOMAIN s, j \in DOMAIN s : i # j => s[i] # s[j]}

(* JSON values of the boolean domain, tagged with their JSON type *)
KeyVals == {"b:true", "b:false", "n:1", "n:0", "s:yes", "s:no"}

(* Python truth value of a field's value *)
Falsy(v) == v \in {Null, "b:false", "n:0"}

(* a or b, as in lot.get('keys') or lot.get('car_keys') (lines 189, 303) *)
PyOr(a, b) == IF Falsy(a) THEN b ELSE a

(* an element of the page's list that is not a JSON object *)
NonObject == [obj |-> FALSE, id |-> Null, make |-> Null, keys |-> Null,
              car_keys |-> Null, updatedAt |-> Null, city |-> Null]

(* a JSON object carrying nothing but an id *)
BareItem(i) == [NonObject EXCEPT !.obj = TRUE, !.id = i]

SimpleItems == {BareItem("1"), BareItem("2"), NonObject}

(* items whose fields are present or absent (Null): the keys and car_keys  *)
(* fields over the boolean domain with the other fields present, and the   *)
(* other fields in every combination without keys                          *)
RichItems ==
    {[obj |-> TRUE, id |-> "1", make |-> "Toyota", keys |-> k, car_keys |-> c,
      updatedAt |-> "t0", city |-> "Sydney"] :
        k \in KeyVals \cup {Null}, c \in {Null, "s:yes"}}
    \cup
    {[obj |-> TRUE, id |-> i, make |-> (IF i = Null THEN Null ELSE "Toyota"),
      keys |-> Null, car_keys |-> Null, updatedAt |-> u, city |-> c] :
        i \in {Null, "1"}, u \in {Null, "t0"}, c \in {Null, "Sydney"}}

(* a raw file.  shape: "A" {sale, lots}; "B" {value: [...]}; "items"       *)
(* {items: [...]}; "list" a top-level list; "single" any other object,     *)
(* taken as one item; "scalar" a number or null; "nojson" a file that does *)
(* not parse.  saleObj: the sale value (top level in A, nested in each     *)
(* item otherwise) is an object; listOk: the value under lots, value or    *)
(* items is a list and not null                                            *)
StructDocs ==
    {d \in [shape : {"A", "B", "items", "list"}, saleObj : BOOLEAN, saleId : {"99"},
            listOk : BOOLEAN,
            items : UNION {[1..n -> SimpleItems] : n \in 0..MaxItems}] :
        (~d.listOk => d.shape # "list" /\ d.items = <<>>)}

RichDocs == [shape : {"A", "B"}, saleObj : {TRUE}, saleId : {Null, "99"},
             listOk : {TRUE}, items : {<<it>> : it \in RichItems}]

OddDocs ==
    [shape : {"single"}, saleObj : BOOLEAN, saleId : {"99"}, listOk : {TRUE},
     items : {<<BareItem("1")>>}]
    \cup [shape : {"scalar", "nojson"}, saleObj : {FALSE}, saleId : {Null},
          listOk : {FALSE}, items : {<<>>}]

Docs == StructDocs \cup RichDocs \cup OddDocs

NoDoc == [shape |-> "A", saleObj |-> TRUE, saleId |-> Null, listOk |-> TRUE,
          items |-> <<>>]

(* datetime.now() of a call: lines 234-237, 308-311 *)
Instants == {"t1", "t2"}

NoFlat == [pc |-> "start", raised |-> FALSE, records |-> <<>>, now |-> Null,
           twin |-> <<>>, rows |-> <<>>]

(* a record is a Python dict: its keys in insertion order with their values *)
Get(rec, col) ==
    IF \E i \in DOMAIN rec : rec[i][1] = col
    THEN rec[CHOOSE i \in DOMAIN rec : rec[i][1] = col][2]
    ELSE Null

(* record[col] = v: an existing key keeps its place, a new key goes last *)
Put(rec, col, v) ==
    IF \E i \in DOMAIN rec : rec[i][1] = col
    THEN [i \in DOMAIN rec |-> IF rec[i][1] = col THEN <<col, v>> ELSE rec[i]]
    ELSE Append(rec, <<col, v>>)

(* the keys assigned at lines 122-231 whatever the schema, in that order   *)
(* (the about 110 assignments of the code, the ones of ColNames kept)      *)
HardCols == <<"saleId", "id", "make", "car_keys", "productLocationCity">>

LotValue_swapped(d, it, col) ==
    CASE col = "saleId" -> d.saleId
      [] col = "id" -> it.id
      [] col = "make" -> it.id
      [] col = "car_keys" -> PyOr(it.keys, it.car_keys)
      [] col = "productLocationCity" -> it.city
      [] OTHER -> Null

(* shape A, the right-hand sides of lines 122-231 *)
LotValue(d, it, col) ==
    CASE col = "saleId" -> d.saleId
      [] col = "id" -> it.id
      [] col = "make" -> it.make
      [] col = "car_keys" -> PyOr(it.keys, it.car_keys)
      [] col = "productLocationCity" -> it.city
      [] OTHER -> Null

(* shape B, lines 264-305: sale columns from the nested sale object when   *)
(* it is one, location columns from productLocation, car_keys from keys or *)
(* car_keys, any other column by its own name                              *)
ItemValue(d, it, col) ==
    CASE col = "saleId" -> IF d.saleObj THEN d.saleId ELSE Null
      [] col = "productLocationCity" -> it.city
      [] col = "car_keys" -> PyOr(it.keys, it.car_keys)
      [] col = "id" -> it.id
      [] col = "make" -> it.make
      [] col = "updatedAt" -> it.updatedAt
      [] OTHER -> Null

RECURSIVE AssignHard(_, _, _, _)
AssignHard(rec, cols, d, it) ==
    IF cols = <<>> THEN rec
    ELSE AssignHard(Put(rec, Head(cols), LotValue(d, it, Head(cols))), Tail(cols), d, it)

(* lines 234-237 and 308-311 (createdAt is treated like updatedAt) *)
Stamp(rec, now) ==
    IF Falsy(Get(rec, "updatedAt")) THEN Put(rec, "updatedAt", now) ELSE rec

(* lines 115-239 *)
RecordA(d, it, sch, now) ==
    Stamp(AssignHard([i \in 1..Len(sch) |-> <<sch[i], Null>>], HardCols, d, it), now)

(* lines 262-313 *)
RecordB(d, it, sch, now) ==
    Stamp([i \in 1..Len(sch) |-> <<sch[i], ItemValue(d, it, sch[i])>>], now)

(* the record built for one object of the list *)
FlatRecord(d, it, sch, now) ==
    IF d.shape = "A" THEN RecordA(d, it, sch, now) ELSE RecordB(d, it, sch, now)

(* the loops at lines 110-239 and 257-313: an element that is not an       *)
(* object is passed over by continue (111-112, 258-259)                    *)
RECURSIVE FlattenItems(_, _, _, _)
FlattenItems(items, d, sch, now) ==
    IF items = <<>> THEN <<>>
    ELSE (IF Head(items).obj THEN <<FlatRecord(d, Head(items), sch, now)>> ELSE <<>>)
         \o FlattenItems(Tail(items), d, sch, now)

Raised == [raised |-> TRUE, records |-> <<>>]

(* the body of the try, lines 93-318.  It raises when the file does not    *)
(* parse (96), when the document is a number or null ('value' in data,     *)
(* 247), when lots, value or items is null (108, 257) and, in shape A,     *)
(* when the sale value is not an object and lots holds an object           *)
(* (sale_info.get, 122)                                                    *)
flatten_body(d, sch, now) ==
    IF d.shape \in {"nojson", "scalar"} THEN Raised
    ELSE IF d.shape \in {"A", "B", "items"} /\ ~d.listOk THEN Raised
    ELSE IF d.shape = "A" /\ ~d.saleObj /\ (\E i \in 1..Len(d.items) : d.items[i].obj)
         THEN Raised
    ELSE [raised |-> FALSE, records |-> FlattenItems(d.items, d, sch, now)]

flatten_json_data_bare(d, sch, now) == flatten_body(d, sch, now)

(* lines 92-323: whatever the body raises, the except at 320-323 returns   *)
(* [] for the page                                                         *)
flatten_json_data(d, sch, now) ==
    LET b == flatten_body(d, sch, now)
    IN  IF b.raised THEN [raised |-> FALSE, records |-> <<>>] ELSE b

(* the same content as a page of the other shape: the sale object at top   *)
(* level and the item in lots, or the item in value with its sale and      *)
(* productLocation nested in it                                            *)
Twin(d) == [d EXCEPT !.shape = IF d.shape = "A" THEN "B" ELSE "A"]

SelectColumns_all(rec, sch) == rec

(* step4 lines 539-547: the frame of the records, a None column for every  *)
(* schema column it lacks, then df[schema_columns]                         *)
SelectColumns(rec, sch) == [k \in 1..Len(sch) |-> <<sch[k], Get(rec, sch[k])>>]

(* lines 357-361: the map applied to a boolean column *)
ConvertBoolean(v) ==
    IF v \in {"b:true", "n:1", "s:yes"} THEN "b:true"
    ELSE IF v \in {"b:false", "n:0", "s:no"} THEN "b:false"
    ELSE Null

(* step4 line 527: one file is flattened *)
Flatten ==
    /\ flat.pc = "start"
    /\ \E now \in Instants :
         LET r == flatten_json_data(doc, schema, now) IN
         flat' = [flat EXCEPT !.pc = "flat", !.raised = r.raised,
                              !.records = r.records, !.now = now]
    /\ UNCHANGED <<doc, schema>>

(* step4 line 527 for a second file, holding the same content in the other *)
(* shape                                                                   *)
FlattenTwin ==
    /\ flat.pc = "flat"
    /\ doc.shape \in {"A", "B"}
    /\ \E now \in Instants :
         flat' = [flat EXCEPT !.pc = "twin",
                              !.twin = flatten_json_data(Twin(doc), schema, now).records]
    /\ UNCHANGED <<doc, schema>>

(* step4 lines 532-547 *)
BuildFrame ==
    /\ flat.pc \in {"flat", "twin"}
    /\ flat.records # <<>>
    /\ flat' = [flat EXCEPT !.pc = "rows",
                            !.rows = [j \in 1..Len(flat.records) |->
                                        SelectColumns(flat.records[j], schema)]]
    /\ UNCHANGED <<doc, schema>>

(***************************************************************************)
(* main of listing_scraper_step4_sale_info_to_db.py                        *)
(***************************************************************************)
IdleMain == [pc |-> "start", calls |-> <<>>, ret |-> 0]

CleanerRuns_onSuccess(success) == success

(* lines 621-634: the cleaner is run whatever process_all_files returned   *)
CleanerRuns(success) == TRUE

(* lines 616-619: the loader is built and process_all_files is called *)
MainLoad ==
    /\ mn.pc = "start"
    /\ LoadStart("sale")
    /\ mn' = [mn EXCEPT !.pc = "load", !.calls = Append(@, "process_all_files")]
    /\ cl' = [q \in Procs |->
                IF cl[q].pc \in {"idle", "done"} THEN cl[q]
                ELSE [cl[q] EXCEPT !.overlap = TRUE]]
    /\ UNCHANGED <<backup, hist>>

MainLoadStep ==
    /\ mn.pc = "load"
    /\ \/ LoadFlatten
       \/ LoadInsert
       \/ LoadMove
       \/ LoadDone
    /\ UNCHANGED <<mn, backup, cl, hist>>

(* lines 619-630: process_all_files has returned *)
MainAfterLoad ==
    /\ mn.pc = "load"
    /\ ld.pc = "done"
    /\ IF CleanerRuns(ld.ret)
       THEN /\ CleanStart(1)
            /\ mn' = [mn EXCEPT !.pc = "clean", !.calls = Append(@, "clean_duplicates")]
       ELSE /\ mn' = [mn EXCEPT !.pc = "end", !.ret = IF ld.ret THEN 0 ELSE 1]
            /\ UNCHANGED <<table, backup, cl, hist>>
    /\ UNCHANGED loadVars

MainCleanStep ==
    /\ mn.pc = "clean"
    /\ \/ CleanCount(1)
       \/ CleanSelect(1)
       \/ CleanBackup(1)
       \/ CleanTruncate(1)
       \/ CleanInsert(1)
       \/ CleanFinal(1)
    /\ UNCHANGED <<mn, loadVars>>

(* lines 631-641 *)
MainEnd ==
    /\ mn.pc = "clean"
    /\ cl[1].pc = "done"
    /\ mn' = [mn EXCEPT !.pc = "end", !.ret = IF ld.ret THEN 0 ELSE 1]
    /\ UNCHANGED <<cleanVars, loadVars>>

main ==
    \/ MainLoad
    \/ MainLoadStep
    \/ MainAfterLoad
    \/ MainCleanStep
    \/ MainEnd

(***************************************************************************)
(* Specifications                                                          *)
(***************************************************************************)

CleanIdle ==
    /\ backup = NoBackup
    /\ cl = [p \in Procs |-> IdleCall]
    /\ hist = <<>>

LoadIdle ==
    /\ pending = {}
    /\ archived = {}
    /\ content = [f \in Files |-> EmptyBag]
    /\ ld = IdleLoad
    /\ insertedOk = {}

PageIdle ==
    /\ pg = IdlePage
    /\ log = <<>>
    /\ store = {}
    /\ clock = 0

OthersIdle ==
    /\ mn = IdleMain
    /\ rs = IdleRestore
    /\ doc = NoDoc
    /\ schema = <<>>
    /\ flat = NoFlat

(* reconciliation runs, one after the other, on any table of the bounds *)
CleanInit ==
    /\ table \in InitTables
    /\ CleanIdle
    /\ LoadIdle
    /\ PageIdle
    /\ OthersIdle

CleanNext ==
    /\ \E p \in SeqProcs : clean_duplicates(p)
    /\ UNCHANGED <<loadVars, pageVars, mn, rs, flatVars>>

SpecClean == CleanInit /\ [][CleanNext]_vars

(* ingestion runs over any set of pending raw files *)
LoadInit ==
    /\ table = EmptyBag
    /\ CleanIdle
    /\ PageIdle
    /\ pending \in SUBSET Files
    /\ archived = {}
    /\ content \in {c \in [Files -> UNION {FileContents(f) : f \in Files}] :
                       \A f \in Files : c[f] \in FileContents(f)}
    /\ ld = IdleLoad
    /\ insertedOk = {}
    /\ OthersIdle

LoadNext ==
    /\ process_all_files
    /\ UNCHANGED <<backup, cl, hist, pageVars, mn, rs, flatVars>>

SpecLoad == LoadInit /\ [][LoadNext]_vars

(* one pagination run of one auction against any server *)
PageInit ==
    /\ table = EmptyBag
    /\ CleanIdle
    /\ LoadIdle
    /\ PageIdle
    /\ OthersIdle

PageNext ==
    /\ process_auction
    /\ UNCHANGED <<cleanVars, loadVars, mn, rs, flatVars>>

SpecPage == PageInit /\ [][PageNext]_vars

(* the page files an earlier run of the daily scraper left for the same    *)
(* auction when it was cut short after n full pages, one fetch per tick    *)
PriorRun(n) ==
    {[kind |-> "daily", page |-> i, ts |-> i - 1, ext |-> "json",
      items |-> PageSize, total |-> MaxTotal] : i \in 1..n}

PriorPages == {n \in 1..MaxPage : n * PageSize < MaxTotal}

(* a run of either scraper on an auction whose earlier run left its page   *)
(* files in the store; every fetch is preceded by at least six seconds of  *)
(* sleep (daily lines 123-157), so the clock is past the earlier stamps    *)
RerunInit ==
    /\ table = EmptyBag
    /\ CleanIdle
    /\ LoadIdle
    /\ pg = IdlePage
    /\ log = <<>>
    /\ \E n \in PriorPages : store = PriorRun(n) /\ clock = n
    /\ OthersIdle

SpecRerun == RerunInit /\ [][PageNext]_vars

(* one run of main: the pending directory is empty or holds every raw     *)
(* file, and the table is empty or holds two rows of one key               *)
MainTables ==
    {EmptyBag, BagOfSeq(<<[id |-> "A", ord |-> 1, src |-> 0],
                          [id |-> "A", ord |-> MaxOrd, src |-> 0]>>)}

MainInit ==
    /\ table \in MainTables
    /\ CleanIdle
    /\ PageIdle
    /\ OthersIdle
    /\ pending \in {{}, Files}
    /\ archived = {}
    /\ content \in {c \in [Files -> UNION {FileContents(f) : f \in Files}] :
                       \A f \in Files : c[f] \in FileContents(f)}
    /\ ld = IdleLoad
    /\ insertedOk = {}

MainNext ==
    /\ main
    /\ UNCHANGED <<pageVars, rs, flatVars>>

SpecMain == MainInit /\ [][MainNext]_vars

(* calls of clean_duplicates one after the other, then one call of         *)
(* restore_from_json on what they left                                     *)
RestoreNext ==
    /\ \/ rs.pc = "idle" /\ (\E p \in SeqProcs : clean_duplicates(p)) /\ UNCHANGED rs
       \/ (\A p \in Procs : cl[p].pc \in {"idle", "done"}) /\ restore_from_json
    /\ UNCHANGED <<loadVars, pageVars, mn, flatVars>>

SpecRestore == CleanInit /\ [][RestoreNext]_vars

(* two processes, each calling clean_duplicates once on the same table     *)
(* with no lock between them, on any table of up to two rows               *)
ConcInit ==
    /\ table \in {BagOfSeq(s) : s \in UNION {[1..n -> InitRows] : n \in 0..2}}
    /\ CleanIdle
    /\ LoadIdle
    /\ PageIdle
    /\ OthersIdle

ConcNext ==
    /\ \E p \in Procs : cl[p].pc # "done" /\ clean_duplicates(p)
    /\ UNCHANGED <<loadVars, pageVars, mn, rs, flatVars>>

SpecConc == ConcInit /\ [][ConcNext]_vars

(* one run of main while the reconciliation of another run, whose load has *)
(* put its rows into the table, goes through its one call of               *)
(* clean_duplicates; neither takes a lock (duplicate_cleaner.py 52-115,    *)
(* step4 569-589).  The first pending file holds one row, of a key the     *)
(* table has or of a new one, and the other files give no record           *)
RaceInit ==
    /\ table \in MainTables
    /\ CleanIdle
    /\ PageIdle
    /\ OthersIdle
    /\ pending = Files
    /\ archived = {}
    /\ \E k \in Keys :
         content = [f \in Files |->
                      IF f = 1 THEN SetToBag({[id |-> k, ord |-> MaxOrd, src |-> f]})
                      ELSE EmptyBag]
    /\ ld = IdleLoad
    /\ insertedOk = {}

OtherReconcile ==
    /\ cl[2].pc # "done"
    /\ clean_duplicates(2)
    /\ UNCHANGED <<loadVars, mn>>

RaceNext ==
    /\ \/ main
       \/ OtherReconcile
    /\ UNCHANGED <<pageVars, rs, flatVars>>

SpecRace == RaceInit /\ [][RaceNext]_vars

(* flatten_json_data applied to a raw page against a schema: the pages     *)
(* with rich items against every schema of the bounds, the others against  *)
(* the schemas of at most one column                                       *)
FlatInit ==
    /\ table = EmptyBag
    /\ CleanIdle
    /\ LoadIdle
    /\ PageIdle
    /\ mn = IdleMain
    /\ rs = IdleRestore
    /\ \/ doc \in RichDocs /\ schema \in Schemas
       \/ doc \in StructDocs \cup OddDocs /\ schema \in {s \in Schemas : Len(s) <= 1}
    /\ flat = NoFlat

FlatNext ==
    /\ \/ Flatten
       \/ FlattenTwin
       \/ BuildFrame
    /\ UNCHANGED <<cleanVars, loadVars, pageVars, mn, rs>>

SpecFlat == FlatInit /\ [][FlatNext]_vars

(***************************************************************************)
(* Properties                                                              *)
(***************************************************************************)
Done(p) == cl[p].pc = "done"

(* the call went through every step and none of them failed *)
NoFailure(c) == c.failed = {} /\ c.ret >= 0

(* C1: whenever the bulk re-insert that follows TRUNCATE fails, a second   *)
(* insert sourced from the backup file is attempted before the call        *)
(* returns; the table is never left empty without that fallback having     *)
(* been tried.                                                             *)
C1_FallbackAttempted ==
    \A p \in Procs :
        (Done(p) /\ "insert" \in cl[p].failed) => cl[p].fallback

(* C2: for a table that was non-empty before the call, clean_duplicates    *)
(* returns a non-negative count only if the table then holds the full      *)
(* deduplicated set; if the rewrite failed it returns -1 and reports that  *)
(* recovery is needed.                                                     *)
C2_NoSilentLoss ==
    \A p \in Procs :
        (Done(p) /\ cl[p].pre # EmptyBag) =>
            /\ (cl[p].ret >= 0 => table = cl[p].dedup)
            /\ ("insert" \in cl[p].failed =>
                    cl[p].ret = -1 /\ cl[p].notice = "recovery")

(* C3: a raw file is in the archive only if an insert call that included   *)
(* its records succeeded; a failed bulk insert archives nothing.           *)
C3_ArchivedOnlyIfInserted == archived \subseteq insertedOk

(* a successfully fetched page with zero items while collected is still    *)
(* below the total it reports                                              *)
Anomalous(e) == e.out = "ok" /\ e.items = 0 /\ e.collected < e.total

(* C4: after a successfully fetched page with zero items and               *)
(* collected < reportedTotal the run stops: no further page is requested.  *)
C4_StopsOnEmptyPage ==
    \A i \in 1..Len(log) :
        Anomalous(log[i]) => (i = Len(log) /\ pg.pc = "done")

Ceil(t, sz) == (t + sz - 1) \div sz

Min(a, b) == IF a < b THEN a ELSE b

RECURSIVE SumItems(_)
SumItems(l) == IF l = <<>> THEN 0 ELSE Head(l).items + SumItems(Tail(l))

(* every iteration so far succeeded against a server that holds t items   *)
(* and serves them in pages of PageSize                                    *)
HonestRun(t) ==
    /\ pg.kind = "daily"
    /\ pg.pc \in {"loop", "done"}
    /\ \A i \in 1..Len(log) :
          /\ log[i].out = "ok"
          /\ log[i].total = t
          /\ log[i].items = Min(PageSize, t - (i - 1) * PageSize)

PagesOfRun == {f \in store : f.ext = "json" /\ f.kind = pg.kind /\ f.ts >= pg.startTs}

(* C5: a run from page 1 with collected = 0 in which every fetch succeeds  *)
(* against a fixed total T > 0 served in pages of size S fetches and       *)
(* persists exactly ceil(T/S) pages whose item counts sum to T, then stops.*)
C5_PaginationComplete ==
    \A t \in 1..MaxTotal :
        HonestRun(t) =>
            /\ Len(log) <= Ceil(t, PageSize)
            /\ (pg.pc = "done" <=> Len(log) = Ceil(t, PageSize))
            /\ {f.page : f \in PagesOfRun} = 1..Len(log)
            /\ Cardinality(PagesOfRun) = Len(log)
            /\ (pg.pc = "done" => SumItems(log) = t /\ pg.collected = t)

C5_Witness ==
    /\ HonestRun(MaxTotal)
    /\ pg.pc = "done"
    /\ Len(log) = Ceil(MaxTotal, PageSize)
    /\ Len(log) > 1
    /\ pg.result.total_items = MaxTotal

RowsOfKey(tbl, k) == {r \in BagToSet(tbl) : r.id = k}

(* C6: after clean_duplicates completes without failure, for every         *)
(* partition key present before the call exactly one row with that key     *)
(* remains, and it is a row of that partition whose order key is the       *)
(* maximum within the partition.                                           *)
C6_KeepsNewestPerKey ==
    \A p \in Procs :
        (Done(p) /\ NoFailure(cl[p])) =>
            /\ KeysIn(table) = KeysIn(cl[p].pre)
            /\ \A k \in KeysIn(cl[p].pre) :
                  /\ Cardinality(RowsOfKey(table, k)) = 1
                  /\ \A r \in RowsOfKey(table, k) :
                        /\ CopiesIn(r, table) = 1
                        /\ r \in RowsOfKey(cl[p].pre, k)
                        /\ \A x \in RowsOfKey(cl[p].pre, k) : x.ord <= r.ord

C6_Witness ==
    /\ Done(1)
    /\ NoFailure(cl[1])
    /\ BagCardinality(cl[1].pre) = 3
    /\ {r.ord : r \in RowsOfKey(cl[1].pre, "A")} = {1, 2, 3}
    /\ \E r \in BagToSet(table) : r.id = "A" /\ r.ord = 3
    /\ BagCardinality(table) = 1

HistNoFailure(h) == ~h.failed /\ h.ret >= 0

(* C7: two calls of clean_duplicates in succession, with no insert in      *)
(* between, return the same row count, and that count is the number of     *)
(* distinct partition keys of the table.                                   *)
C7_Idempotent ==
    \A i \in 1..(Len(hist) - 1) :
        (HistNoFailure(hist[i]) /\ HistNoFailure(hist[i + 1])) =>
            /\ hist[i].ret = hist[i + 1].ret
            /\ hist[i].ret = hist[i].keys
            /\ hist[i + 1].ret = hist[i + 1].keys

C7_Witness ==
    /\ Len(hist) = 2
    /\ HistNoFailure(hist[1])
    /\ HistNoFailure(hist[2])
    /\ hist[1].rows = 3
    /\ hist[1].ret = 2
    /\ hist[2].ret = 2

(* C8: the table is truncated only after the backup file holding the full  *)
(* deduplicated set has been completely written; if writing the backup     *)
(* fails the table is never truncated.                                     *)
C8_BackupBeforeTruncate ==
    \A p \in SeqProcs :
        /\ cl[p].truncated =>
              /\ cl[p].backupDone
              /\ backup = [state |-> "ok", rows |-> ToJson(cl[p].dedup)]
              /\ FromJson(backup.rows) = cl[p].dedup
        /\ "backup" \in cl[p].failed => (~cl[p].truncated /\ table = cl[p].pre)
        /\ cl[p].pc \in {"count", "select", "backup", "truncate"} => table = cl[p].pre

C8_Witness ==
    /\ cl[1].pc = "insert"
    /\ cl[1].truncated
    /\ table = EmptyBag
    /\ cl[1].pre # EmptyBag
    /\ backup.state = "ok"
    /\ BagCardinality(backup.rows) = 2

FileOf(e) == [kind |-> pg.kind, page |-> e.page, ts |-> e.ts, ext |-> "json",
              items |-> e.items, total |-> e.total]

(* C9: after the first failed fetch of a run no further page is requested  *)
(* and the failed page is not retried, and every page file persisted       *)
(* earlier in the run is still present and unchanged.                      *)
C9_StopsAtFirstFailure ==
    \A i \in 1..Len(log) :
        /\ log[i].out # "ok" => (i = Len(log) /\ pg.pc = "done")
        /\ log[i].out = "ok" => FileOf(log[i]) \in store
        /\ \A j \in 1..Len(log) : i < j => log[i].page < log[j].page

C9_Witness ==
    /\ pg.pc = "done"
    /\ Len(log) = 3
    /\ log[3].out = "non200"
    /\ FileOf(log[1]) \in store
    /\ FileOf(log[2]) \in store
    /\ log[2].items > 0

(* C10: a run that stopped because a fetch failed before collected reached *)
(* the reported total is not marked successful.                            *)
C10_FailureNotSuccess ==
    (pg.pc = "done" /\ Len(log) > 0 /\ log[Len(log)].out # "ok")
        => ~pg.result.success

RECURSIVE SumFileItems(_)
SumFileItems(fs) ==
    IF fs = {} THEN 0
    ELSE LET f == CHOOSE x \in fs : TRUE IN f.items + SumFileItems(fs \ {f})

PreviousCollected(i) ==
    IF i = 1 THEN StartCollected(pg.kind) ELSE log[i - 1].collected

(* C11: the running count of a run is advanced by a page's item count only *)
(* once that page is in the raw store: at every iteration boundary it is   *)
(* its initial value plus the items of the pages the run has persisted,    *)
(* each iteration adds its items exactly when its page file is there, and  *)
(* an iteration whose file could not be written ends the run with the      *)
(* count where it was and no file for that page.                           *)
C11_PersistBeforeCount ==
    pg.pc \in {"loop", "done"} =>
        /\ pg.collected = StartCollected(pg.kind) + SumFileItems(PagesOfRun)
        /\ \A i \in 1..Len(log) :
             /\ log[i].collected = PreviousCollected(i) +
                    (IF FileOf(log[i]) \in store THEN log[i].items ELSE 0)
             /\ log[i].out = "persist" =>
                    /\ i = Len(log) /\ pg.pc = "done"
                    /\ log[i].collected = PreviousCollected(i)
                    /\ pg.result.total_items = PreviousCollected(i)
                    /\ ~\E f \in store : f.page = log[i].page /\ f.ts = log[i].ts

C11_Witness ==
    /\ pg.pc = "done" /\ pg.kind = "daily" /\ Len(log) = 3
    /\ log[1].out = "ok" /\ log[2].out = "ok" /\ log[3].out = "persist"
    /\ Cardinality(PagesOfRun) = 2
    /\ pg.collected = 2 * PageSize
    /\ pg.collected = log[1].items + log[2].items

ZeroFirstPage ==
    /\ pg.kind = "daily" /\ Len(log) >= 1
    /\ log[1].page = 1 /\ log[1].out = "ok"
    /\ log[1].total = 0 /\ log[1].items = 0

(* C12: a first page that reports a total of 0 and carries no item ends    *)
(* the run normally after that one fetch: one page file persisted, no      *)
(* second fetch, no error file, and the run returns its result for one     *)
(* page and no item.                                                       *)
C12_ZeroTotalStops ==
    ZeroFirstPage =>
        /\ pg.pc = "done" /\ Len(log) = 1
        /\ Cardinality(PagesOfRun) = 1
        /\ store = PagesOfRun
        /\ pg.result = RunResult(1, 0)

C12_Witness ==
    /\ ZeroFirstPage /\ pg.pc = "done"
    /\ pg.result.success /\ pg.result.total_pages = 1
    /\ \E f \in store : f.page = 1 /\ f.ext = "json" /\ f.items = 0 /\ f.total = 0

(* C14: after every page the loop continues exactly when the count so far  *)
(* is below the total reported by that same page, whatever totals earlier  *)
(* pages reported.                                                         *)
C14_DecidesOnLatestTotal ==
    \A i \in 1..Len(log) :
        log[i].out = "ok" =>
            ((i < Len(log) \/ pg.pc = "loop") <=> log[i].collected < log[i].total)

C14_Witness ==
    /\ pg.pc = "done" /\ Len(log) = 2
    /\ log[1].out = "ok" /\ log[2].out = "ok"
    /\ log[2].total < log[1].total
    /\ log[2].collected < log[1].total
    /\ log[2].collected >= log[2].total

(* C13: the raw response store only grows: no step of a run removes or     *)
(* changes a file that is in the store, and a step that writes the store   *)
(* adds exactly one file, stamped with the page and second of the fetch,   *)
(* under a name no stored file has; this covers a run that fetches again   *)
(* the pages an earlier, interrupted run had stored.                       *)
C13_AppendOnly ==
    [][/\ \A f \in store : f \in store'
       /\ store' # store =>
            \E f \in store' \ store :
                /\ store' = store \cup {f}
                /\ Name(f) \notin {Name(g) : g \in store}
                /\ f.page = pg.page /\ f.ts = clock]_vars

C13_Witness ==
    \E f \in store, g \in store :
        /\ f.ext = "json" /\ g.ext = "json"
        /\ f.page = g.page /\ f.kind = g.kind
        /\ f.ts < pg.startTs /\ g.ts >= pg.startTs
        /\ f.items # g.items

InsertSucceeded == ld.pc = "done" /\ ld.ret /\ ld.dbOk

(* C15 as stated: once the bulk insert of a run has succeeded, every raw   *)
(* file that contributed records is in the archive and no longer pending   *)
(* when the run ends.                                                      *)
C15_AllMoved ==
    InsertSucceeded =>
        /\ ld.files \subseteq archived
        /\ ld.files \cap pending = {}

(* C15, amended: once the bulk insert of a run has succeeded, the run      *)
(* attempts the move of every contributing raw file before it ends; each   *)
(* file whose move succeeded is in the archive and no longer pending, and  *)
(* each file whose own move failed is still pending and not archived.      *)
C15_MovedUnlessMoveFails ==
    InsertSucceeded =>
        /\ ld.tomove = {}
        /\ ld.moved \subseteq ld.files
        /\ \A f \in ld.files :
             IF f \in ld.moved
             THEN f \in archived /\ f \notin pending
             ELSE f \in pending /\ f \notin archived

C15_Witness ==
    /\ InsertSucceeded
    /\ ld.files = {1, 2}
    /\ 1 \in archived /\ 1 \notin pending
    /\ 2 \in pending /\ 2 \notin archived /\ 2 \notin ld.moved

Failing(f) == content[f] = EmptyBag

BagIncluded(a, b) == \A r \in BagToSet(a) : CopiesIn(r, a) <= CopiesIn(r, b)

(* C16: a raw file whose flattening fails gives no record to the run, is   *)
(* not tracked, inserted or moved and stays pending, while the other files *)
(* of the run are all tracked, their records all go into the one insert,   *)
(* and their moves all take place.                                         *)
C16_FailingFileIsolated ==
    /\ \A f \in Files : Failing(f) =>
         /\ f \notin ld.files /\ f \notin ld.tomove /\ f \notin ld.moved
         /\ f \notin archived /\ f \notin insertedOk
         /\ f \in ld.listed => f \in pending
         /\ \A r \in BagToSet(table) \cup BagToSet(ld.all_records) : r.src # f
    /\ (ld.pc \in {"insert", "move", "done"}
          /\ \E g \in ld.listed : ~Failing(g)) =>
         /\ ld.files = {g \in ld.listed : ~Failing(g)}
         /\ ld.all_records = SumContent(ld.files, content)
         /\ (ld.pc \in {"move", "done"} /\ ld.dbOk) => BagIncluded(ld.all_records, table)
         /\ ld.moved \subseteq archived
         /\ (ld.pc = "done" /\ ld.ret) => ld.tomove = {}

C16_Witness ==
    /\ ld.pc = "done" /\ ld.ret /\ ld.dbOk
    /\ ld.listed = {1, 2}
    /\ Failing(1) /\ ~Failing(2)
    /\ 1 \in pending /\ 2 \in archived
    /\ \E r \in BagToSet(table) : r.src = 2

C17_WitnessLoaded ==
    /\ mn.pc = "end" /\ mn.ret = 0 /\ ld.dbOk
    /\ BagCardinality(ld.all_records) = 2
    /\ cl[1].truncated /\ NoFailure(cl[1])
    /\ BagCardinality(table) = 1

(* C18: whenever restore_from_json returns n >= 0, the table holds exactly *)
(* the n records of the backup file and nothing else.                      *)
C18_RestoresExactlyBackup ==
    (rs.pc = "done" /\ rs.ret >= 0) =>
        /\ table = FromJson(backup.rows)
        /\ BagCardinality(table) = rs.ret

Quiet == \A p \in Procs : cl[p].pc \in {"idle", "done"}

(* tbl is a deduplicated set of pre: the keys of pre, one row for each,    *)
(* that row being one of the newest rows pre had for the key               *)
IsDedupOf(tbl, pre) ==
    /\ KeysIn(tbl) = KeysIn(pre)
    /\ \A k \in KeysIn(pre) :
          /\ Cardinality(RowsOfKey(tbl, k)) = 1
          /\ \A r \in RowsOfKey(tbl, k) :
                /\ CopiesIn(r, tbl) = 1
                /\ r \in RowsOfKey(pre, k)
                /\ \A x \in RowsOfKey(pre, k) : x.ord <= r.ord

Serialized == \A p \in Procs : Done(p) => ~cl[p].overlap

(* C19: when the calls of clean_duplicates on a table did not overlap and  *)
(* none of their steps failed, the table they leave is exactly a           *)
(* deduplicated set of the table each of them found; two calls that do     *)
(* overlap can, with no step failing, leave a table that is not (the       *)
(* witness: both re-insert after both TRUNCATEs and every row is there     *)
(* twice).                                                                 *)
C19_SerializedRunsDedup ==
    (Quiet /\ Serialized /\ \A p \in Procs : Done(p) => NoFailure(cl[p])) =>
        \A p \in Procs : Done(p) => IsDedupOf(table, cl[p].pre)

C19_Witness ==
    /\ Done(1) /\ Done(2)
    /\ NoFailure(cl[1]) /\ NoFailure(cl[2])
    /\ cl[1].overlap /\ cl[2].overlap
    /\ cl[1].truncated /\ cl[2].truncated
    /\ ~IsDedupOf(table, cl[1].pre)
    /\ \E r \in BagToSet(table) : CopiesIn(r, table) = 2

(* the other interleaving of C19: a call that reads the table between the  *)
(* other call's TRUNCATE and re-insert finds no data, although the table   *)
(* was not empty when it was called                                        *)
C19_WitnessEmptyRead ==
    \E p \in Procs :
        /\ Done(p) /\ cl[p].overlap
        /\ cl[p].pre # EmptyBag
        /\ cl[p].failed = {} /\ cl[p].ret = 0 /\ cl[p].notice = "nodata"

(* the page has a malformed element: an item that is not an object, or, in *)
(* shape A, a sale value that is not an object                             *)
Malformed(d) ==
    /\ d.shape \in {"A", "B"} /\ d.listOk
    /\ \/ \E i \in 1..Len(d.items) : ~d.items[i].obj
       \/ d.shape = "A" /\ ~d.saleObj

(* C20: for a page with a malformed element, flatten_json_data returns one *)
(* record per item of the page, in order, the record of an item that is    *)
(* not an object having null for its id and the records of a page whose    *)
(* sale is not an object having null for the sale's columns.               *)
C20_BadItemStillEmitted ==
    (flat.pc # "start" /\ Malformed(doc)) =>
        /\ Len(flat.records) = Len(doc.items)
        /\ \A j \in 1..Len(flat.records) :
              /\ "id" \in {schema[k] : k \in 1..Len(schema)} =>
                    Get(flat.records[j], "id") = doc.items[j].id
              /\ ~doc.saleObj => Get(flat.records[j], "saleId") = Null

(* C21: flatten_json_data never raises: for every document (empty, one     *)
(* that does not parse, of either shape or of neither) and every schema it *)
(* returns a list of records, which is empty when the body raised.         *)
C21_NeverRaises ==
    flat.pc # "start" =>
        /\ ~flat.raised
        /\ flat.records \in Seq(Seq(ColNames \X (KeyVals \cup Instants \cup
                                   {Null, "1", "2", "99", "Toyota", "Sydney", "t0"})))
        /\ flatten_body(doc, schema, flat.now).raised => flat.records = <<>>

(* a document on which the body raises has been flattened to the empty list *)
C21_Witness ==
    /\ flat.pc = "flat"
    /\ doc.shape = "A" /\ ~doc.saleObj /\ doc.listOk
    /\ flatten_body(doc, schema, flat.now).raised
    /\ ~flat.raised /\ flat.records = <<>>

(* a file that does not parse has been flattened to the empty list *)
C21_WitnessNoJson ==
    flat.pc = "flat" /\ doc.shape = "nojson" /\ ~flat.raised /\ flat.records = <<>>

(* the values the source holds for a schema column of an item, under       *)
(* either shape: nothing when the field is absent                          *)
Provided(d, it, col) ==
    {v \in CASE col = "saleId" -> IF d.saleObj THEN {d.saleId} ELSE {}
             [] col = "id" -> {it.id}
             [] col = "make" -> {it.make}
             [] col = "car_keys" -> {it.keys, it.car_keys}
             [] col = "updatedAt" -> {it.updatedAt}
             [] col = "productLocationCity" -> {it.city}
             [] OTHER -> {} : v # Null}

(* every item of the page has its record *)
AllEmitted == flat.pc # "start" /\ Len(flat.records) = Len(doc.items)

C22_WitnessStamped ==
    /\ AllEmitted /\ Len(flat.records) = 1
    /\ \E k \in 1..Len(schema) : schema[k] = "updatedAt"
    /\ doc.items[1].updatedAt = Null
    /\ Get(flat.records[1], "updatedAt") = flat.now

(* the keys of a record, in order *)
Cols(rec) == [i \in DOMAIN rec |-> rec[i][1]]

C24_AliasPreservesValue ==
    (AllEmitted /\ \E k \in 1..Len(schema) : schema[k] = "car_keys") =>
        \A j \in 1..Len(flat.records) :
            doc.items[j].keys \in KeyVals =>
                /\ Get(flat.records[j], "car_keys") = doc.items[j].keys
                /\ ConvertBoolean(Get(flat.records[j], "car_keys"))
                     = ConvertBoolean(doc.items[j].keys)

(* C25: shape equivalence: the same underlying item flattened as a page of *)
(* sale and lots and as a page of flat items (its sale and productLocation *)
(* nested in it) yields records that agree on every schema column that is  *)
(* non-null in both.                                                       *)
C25_ShapesAgree ==
    (flat.pc = "twin" /\ Len(flat.records) = 1 /\ Len(flat.twin) = 1) =>
        \A k \in 1..Len(schema) :
            LET a == Get(flat.records[1], schema[k])
                b == Get(flat.twin[1], schema[k])
            IN  (a # Null /\ b # Null) => a = b

(* every iteration of the run so far fetched and saved its page *)
AllOk == \A i \in 1..Len(log) : log[i].out = "ok"

(* C26: the single-URL scraper never requests page 1: its first request is *)
(* for page 2 with the count preset to the page size, and when every fetch *)
(* succeeds it stops after the first page p for which the page size plus   *)
(* the items of pages 2..p reaches the total page p reports; so page 2 is  *)
(* requested exactly once even when the total is at most the page size,    *)
(* and the run reports total_pages = p although it fetched p-1 pages.      *)
C26_SingleStartsAtPageTwo ==
    (pg.kind = "single" /\ pg.pc \in {"loop", "done"}) =>
        /\ \A i \in 1..Len(log) :
              /\ log[i].page = i + 1
              /\ log[i].collected = PageSize + SumItems(SubSeq(log, 1, i))
        /\ log = <<>> => (pg.page = 2 /\ pg.collected = PageSize /\ pg.pc = "loop")
        /\ AllOk =>
              /\ \A i \in 1..(Len(log) - 1) : log[i].collected < log[i].total
              /\ pg.pc = "done" <=>
                    (log # <<>> /\ log[Len(log)].collected >= log[Len(log)].total)
              /\ pg.pc = "done" =>
                    /\ pg.result.total_pages = log[Len(log)].page
                    /\ pg.result.total_pages = Len(log) + 1
                    /\ pg.result.total_items = log[Len(log)].collected

(* a total at most the page size: page 2 was fetched once and the run      *)
(* reports two pages                                                       *)
C26_Witness ==
    /\ pg.kind = "single" /\ pg.pc = "done" /\ AllOk
    /\ Len(log) = 1 /\ log[1].page = 2
    /\ log[1].total <= PageSize /\ log[1].total > 0
    /\ pg.result.total_pages = 2

(* a run that needed pages 2 and 3 and reports three pages *)
C26_WitnessTwoPages ==
    /\ pg.kind = "single" /\ pg.pc = "done" /\ AllOk
    /\ Len(log) = 2 /\ log[2].page = 3
    /\ log[1].collected < log[1].total
    /\ pg.result.total_pages = 3

(* the pages of the run are requested in order from the start page, each   *)
(* once, and a page is requested only after the page before it was fetched *)
(* and saved                                                               *)
ConsecutivePages ==
    pg.pc \in {"loop", "done"} =>
        /\ \A i \in 1..Len(log) : log[i].page = StartPage(pg.kind) + i - 1
        /\ pg.pc = "loop" => pg.page = StartPage(pg.kind) + Len(log)
        /\ \A i \in 1..(Len(log) - 1) :
              log[i].out = "ok" /\ FileOf(log[i]) \in store

(* the requests the single-URL scraper sent carry the range of their page, *)
(* and successive ranges touch without overlapping                         *)
RangesContiguous ==
    /\ \A i \in 1..Len(log) :
          log[i].req.sent =>
              /\ log[i].req.skip = (log[i].page - 1) * PageSize
              /\ log[i].req.top = PageSize
    /\ \A i \in 1..(Len(log) - 1) :
          log[i + 1].req.sent =>
              log[i + 1].req.skip = log[i].req.skip + log[i].req.top

C27_WitnessUnmodified ==
    /\ pg.kind = "single" /\ pg.body = "other" /\ Len(log) = 2
    /\ log[1].req = AsCaptured /\ log[2].req = AsCaptured

(* the steps of clean_duplicates that precede the TRUNCATE *)
EarlySteps == {"count", "select", "backup"}

(* C28: a failure of the count query, of the deduplication read or of the  *)
(* writing of the backup file makes clean_duplicates return -1 with the    *)
(* table exactly as it was before the call.                                *)
C28_EarlyFailureChangesNothing ==
    \A p \in SeqProcs :
        (Done(p) /\ cl[p].failed \cap EarlySteps # {}) =>
            /\ cl[p].ret = -1
            /\ cl[p].notice = "error"
            /\ ~cl[p].truncated
            /\ table = cl[p].pre
            /\ hist[Len(hist)].ret = -1

(* the backup could not be written for a table with duplicates: the call   *)
(* returned -1 and the table holds its rows                                *)
C28_Witness ==
    /\ Done(1) /\ cl[1].failed = {"backup"}
    /\ cl[1].ret = -1
    /\ BagCardinality(cl[1].pre) > Cardinality(KeysIn(cl[1].pre))
    /\ table = cl[1].pre

(* the count query failed *)
C28_WitnessCount ==
    /\ Done(1) /\ cl[1].failed = {"count"} /\ cl[1].ret = -1
    /\ table = cl[1].pre /\ table # EmptyBag

(* C29: clean_duplicates on an empty table is a no-op that returns 0: it   *)
(* goes no further than the deduplication read, leaves the table and the   *)
(* backup file as they are, and returns 0 when its two queries succeed, so *)
(* an earlier backup survives a later run against an emptied table.        *)
C29_EmptyTableNoOp ==
    [][\A p \in SeqProcs :
          (cl[p].pc \in {"count", "select"} /\ cl[p].pre = EmptyBag) =>
              /\ table' = table
              /\ backup' = backup
              /\ cl'[p].pc \in {"count", "select", "done"}
              /\ ~cl'[p].truncated /\ ~cl'[p].backupDone
              /\ (cl'[p].pc = "done" /\ cl'[p].failed = {}) =>
                    (cl'[p].ret = 0 /\ cl'[p].notice = "nodata")]_vars

(* the first call backed up and truncated the table and its insert left it *)
(* empty; the second call returned 0 and the first call's backup is there  *)
C29_Witness ==
    /\ Len(hist) = 2 /\ Done(1)
    /\ hist[1].rows > 0
    /\ hist[2].rows = 0 /\ hist[2].ret = 0 /\ ~hist[2].failed
    /\ cl[1].notice = "nodata"
    /\ table = EmptyBag
    /\ backup.state = "ok" /\ backup.rows # EmptyBag

(* a raw file is in the archive as ingested, its rows were appended, and   *)
(* the table holds no row at all for the key of one of them                *)
Lost ==
    \E f \in archived \cap insertedOk :
        \E r \in BagToSet(content[f]) : RowsOfKey(table, r.id) = {}

(* C30: a load interleaved with a reconciliation on the same table loses   *)
(* data (the witness: rows appended between the deduplication read and the *)
(* TRUNCATE of another run's clean_duplicates are absent when it finishes, *)
(* although their raw file is archived), whereas when no reconciliation    *)
(* overlaps another run's load or reconciliation and no step fails, every  *)
(* archived file's keys are in the table.                                  *)
C30_AloneNeverLoses ==
    (/\ \A p \in Procs : cl[p].pc \in {"idle", "done"}
     /\ Serialized
     /\ \A p \in Procs : Done(p) => NoFailure(cl[p])) => ~Lost

(* the other run's reconciliation read the table, this run appended the    *)
(* row of a new key and archived its file, the reconciliation truncated    *)
(* and re-inserted what it had read, and this run's own reconciliation     *)
(* then found nothing to bring back: no step failed and the row is gone    *)
C30_Witness ==
    /\ mn.pc = "end" /\ ld.ret
    /\ Done(1) /\ Done(2)
    /\ NoFailure(cl[1]) /\ NoFailure(cl[2])
    /\ cl[2].overlap /\ ~cl[1].overlap
    /\ cl[2].truncated /\ cl[2].pre # EmptyBag
    /\ 1 \in archived \cap insertedOk
    /\ \A r \in BagToSet(content[1]) : r.id \notin KeysIn(cl[2].dedup)
    /\ Lost

(* the same run with the other reconciliation over before the load began:  *)
(* the row is in the table at the end                                      *)
C30_WitnessAlone ==
    /\ mn.pc = "end" /\ ld.ret
    /\ Done(1) /\ Done(2) /\ Serialized
    /\ NoFailure(cl[1]) /\ NoFailure(cl[2])
    /\ cl[2].truncated
    /\ 1 \in archived \cap insertedOk
    /\ \A r \in BagToSet(content[1]) : r.id \notin KeysIn(cl[2].dedup)
    /\ ~Lost

====
